---- MODULE Spec2Model ----
(***************************************************************************)
(* Whisper transcribe / translate pipeline: process_audio and process_url  *)
(* of whisper_transcribe_translate_processing.py, the two older Gradio     *)
(* variants, and the command-line script.                                  *)
(*                                                                         *)
(* Strings are sequences of tokens.  The separators "_", "." and "/" are   *)
(* tokens of their own and no other token contains one of them, so that    *)
(* os.path.splitext, os.path.basename, str.split('_'), str.endswith and    *)
(* the substring test act on the model as they act on the characters.      *)
(***************************************************************************)
EXTENDS Integers, Sequences, FiniteSets, TLC

\* ---------------------------------------------------------------- bounds
\* The clock takes the seconds 0..MaxTime.
MaxTime == 1
\* Number of requests (runs) the front end handles.
NumRuns == 2

Runs == 1..NumRuns

\* ---------------------------------------------------------------- strings
\* Python's None (a value no string of the program equals).
None == <<"<None>">>
\* The empty string.
Empty == <<>>

\* str.lower() on a token.
LowerTok(t) ==
    CASE t = "MP3" -> "mp3"
      [] t = "Wav" -> "wav"
      [] t = "FLAC" -> "flac"
      [] t = "MOV" -> "mov"
      [] OTHER -> t

\* str.lower()
lower(s) == [i \in DOMAIN s |-> LowerTok(s[i])]

\* str.rfind(tok) + 1: the last position of tok in s, 0 when there is none.
rfind(s, tok) ==
    IF \E i \in DOMAIN s : s[i] = tok
    THEN CHOOSE i \in DOMAIN s : s[i] = tok /\ \A j \in DOMAIN s : j > i => s[j] # tok
    ELSE 0

\* os.path.basename: what follows the last "/".
basename(p) == SubSeq(p, rfind(p, "/") + 1, Len(p))

\* os.path.splitext (genericpath._splitext): the extension starts at the last
\* "." of the last path component, unless only dots precede it there.
splitext(p) ==
    LET sepIndex == rfind(p, "/")
        dotIndex == rfind(p, ".")
    IN  IF dotIndex > sepIndex
           /\ \E k \in (sepIndex + 1)..(dotIndex - 1) : p[k] # "."
        THEN <<SubSeq(p, 1, dotIndex - 1), SubSeq(p, dotIndex, Len(p))>>
        ELSE <<p, Empty>>

\* str.endswith
endswith(s, suf) ==
    Len(s) >= Len(suf) /\ SubSeq(s, Len(s) - Len(suf) + 1, Len(s)) = suf

\* `sub in s` on strings
contains(s, sub) ==
    \E i \in 1..(Len(s) - Len(sub) + 1) : SubSeq(s, i, i + Len(sub) - 1) = sub

\* str.split('_'): the segments between the underscores (at least one).
RECURSIVE split(_)
split(s) ==
    IF \A i \in DOMAIN s : s[i] # "_"
    THEN <<s>>
    ELSE LET i == CHOOSE k \in DOMAIN s : s[k] = "_" /\ \A j \in 1..(k - 1) : s[j] # "_"
         IN  <<SubSeq(s, 1, i - 1)>> \o split(SubSeq(s, i + 1, Len(s)))

\* datetime.now().strftime("%Y%m%d_%H%M%S") at second t: the date, an
\* underscore, the time of day.
strftime(t) == <<"20241229", "_", ToString(t)>>

\* os.path.join(folder, name) for a folder written with its trailing "/".
join(folder, name) == folder \o name

model_path == <<"models", "/">>
output_folder == <<"transcribe", "/">>

\* os.listdir(folder): the names directly under it.
listdir(fs, folder) ==
    {SubSeq(p, Len(folder) + 1, Len(p)) : p \in
        {q \in DOMAIN fs : /\ Len(q) > Len(folder)
                           /\ SubSeq(q, 1, Len(folder)) = folder
                           /\ rfind(q, "/") = Len(folder)}}

\* open(path, "w").write(text): the file is created or replaced.
write(fs, path, text) ==
    [p \in DOMAIN fs \cup {path} |-> IF p = path THEN text ELSE fs[p]]

\* ---------------------------------------------------------------- inputs
\* The entry points: process_audio and process_url of the processing script,
\* their older variants, and the command-line script.
Flows == {"audio", "url", "audio_v1", "url_v1", "cli"}
UrlFlows == {"url", "url_v1"}

\* Local paths a user can submit.
InputFiles ==
    { <<"sample", ".", "mp3">>,
      <<"song", ".", "MP3">>,
      <<"take", ".", "Wav">>,
      <<"clip", ".", "mov">>,
      <<"CLIP", ".", "MOV">>,
      <<"notes">>,
      <<".", "mp3">>,
      <<"d", ".", "mp3", "/", "clip">>,
      <<"a", ".", "tar", ".", "flac">>,
      <<"b", ".", "ogg">>,
      <<"c", ".", "m4a">>,
      <<"e", ".", "aac">>,
      <<"f", ".", "wav", ".", "txt">>,
      <<"g", ".">> }

\* Video URLs a user can submit.
Urls == { <<"https://v/1">>, <<"https://v/2">>, <<"https://v/3">> }

\* What the downloader finds behind a URL: title, site id and container.
Media(url) ==
    CASE url = <<"https://v/1">> ->
            [title |-> <<"talk">>, id |-> <<"abc">>, ext |-> "mp4"]
      [] url = <<"https://v/2">> ->
            [title |-> <<"my", "_", "clip">>, id |-> <<"x", "_", "y">>, ext |-> "mp4"]
      [] OTHER ->
            [title |-> <<"talk">>, id |-> <<"abc">>, ext |-> "webm"]

ModelNames == { "base", "large" }
Languages == { Empty, <<"German">> }
Tasks == { <<"transcribe">>, <<"transcribe & translate">>, <<"translate">>, Empty }

\* ---------------------------------------------------------------- state
VARIABLES
    now,     \* the wall clock, in seconds
    files,   \* the file system: path -> content
    run,     \* per run: its position, its arguments and its local variables
    calls    \* per run: the external calls it has made, in order

vars == <<now, files, run, calls>>

\* A call of an external collaborator (subprocess.run, os.listdir, whisper,
\* open().write): its arguments a, b, c and its outcome.
Call(op, a, b, c, out) == [op |-> op, a |-> a, b |-> b, c |-> c, out |-> out]
Made(r, c) == calls' = [calls EXCEPT ![r] = Append(@, c)]

IdleRun ==
    [ pc |-> "idle", flow |-> "none",
      args |-> [source |-> None, model_name |-> "", source_language |-> None, task |-> None],
      model_name |-> "", source_language |-> None, task |-> None,
      input_file |-> None, timestamp |-> None, extracted_audio |-> None,
      audio_file |-> None, video_filename |-> None, video_id |-> None,
      model_status |-> None, output_text |-> None, output_filename |-> None,
      result |-> <<>>, exc |-> "" ]

\* A second passes.
Tick ==
    /\ now < MaxTime
    /\ now' = now + 1
    /\ UNCHANGED <<files, run, calls>>

\* ---------------------------------------------------------------- helpers
known_audio_exts ==
    { <<".", "wav">>, <<".", "mp3">>, <<".", "flac">>, <<".", "ogg">>,
      <<".", "m4a">>, <<".", "aac">> }

\* Mutant: the extension is compared without lower-casing it.
IsAudio_casesensitive(input_file) == splitext(input_file)[2] \in known_audio_exts

\* The format test of process_audio: the lower-cased extension is a known one.
IsAudio(input_file) == lower(splitext(input_file)[2]) \in known_audio_exts

\* Mutant: the WAV is named after nothing but the folder and the timestamp.
ExtractedAudio_unprefixed(timestamp) ==
    join(output_folder, timestamp \o <<".", "wav">>)

\* The name of the WAV that ffmpeg extracts from a local video.
ExtractedAudio(timestamp) ==
    join(output_folder, <<"extracted", "_">> \o timestamp \o <<".", "wav">>)

\* Mutant: subprocess.run without check=True never raises.
CheckedRunRaises_unchecked(returncode) == FALSE

\* subprocess.run(cmd, check=True) raises CalledProcessError on this exit status.
CheckedRunRaises(returncode) == returncode # 0

\* str(e) of the CalledProcessError of a command.
ProcessError(cmd) == <<"Command '">> \o cmd \o <<"' returned non-zero exit status 1.">>

\* The path of the cache file whose existence decides the model status.
ModelFile(model_name) == join(model_path, <<model_name, ".", "pt">>)

\* The model status line, from the existence of the cache file.
ModelStatus(exists, model_file) ==
    IF exists
    THEN <<"Model successfully loaded from: ">> \o model_file
    ELSE <<"Model was downloaded to: ">> \o model_file

\* Mutant: the task label is passed on as it is.
MapTask_unmapped(task) == task

\* "transcribe & translate" is Whisper's "translate".
MapTask(task) == IF task = <<"transcribe & translate">> THEN <<"translate">> ELSE task

OutputType(task) == IF task = <<"translate">> THEN <<"translated">> ELSE <<"transcribed">>

\* The base name of the transcript: the audio file's name without extension.
BaseName(audio_file) == splitext(basename(audio_file))[1]

\* Python truthiness of an optional string.
Truthy(v) == v # None /\ v # Empty

\* The transcript path of process_audio (and of the older process_audio).
AudioOutputFilename(base_name, output_type, timestamp) ==
    join(output_folder, base_name \o <<"_">> \o output_type \o <<"_">> \o timestamp \o <<".", "txt">>)

\* Mutant: the video id is put before the timestamp.
UrlOutputFilename_idfirst(base_name, output_type, final_timestamp, video_id) ==
    join(output_folder, base_name \o <<"_">> \o output_type \o <<"_">> \o video_id
                         \o <<"_">> \o final_timestamp \o <<".", "txt">>)

\* The transcript path of process_url: the video id is appended when there is one.
UrlOutputFilename(base_name, output_type, final_timestamp, video_id) ==
    IF Truthy(video_id)
    THEN join(output_folder, base_name \o <<"_">> \o output_type \o <<"_">> \o final_timestamp
                              \o <<"_">> \o video_id \o <<".", "txt">>)
    ELSE join(output_folder, base_name \o <<"_">> \o output_type \o <<"_">> \o final_timestamp
                              \o <<".", "txt">>)

\* The transcript path of the older process_url: the video id is always appended.
UrlV1OutputFilename(base_name, output_type, timestamp, video_id) ==
    join(output_folder, base_name \o <<"_">> \o output_type \o <<"_">> \o timestamp
                         \o <<"_">> \o video_id \o <<".", "txt">>)

\* The default transcript path of the command-line script.
CliOutputFilename(audio_file, output_type) ==
    splitext(audio_file)[1] \o <<"_">> \o output_type \o <<".", "txt">>

\* The name the downloader gives the video it stores.
DownloadName(flow, url, timestamp) ==
    LET m == Media(url)
    IN  IF flow = "url"
        THEN m.title \o <<"_">> \o m.id \o <<"_">> \o timestamp \o <<".", m.ext>>
        ELSE m.title \o <<"_">> \o m.id \o <<".", m.ext>>

\* Mutant: the scan accepts any video, whatever timestamp its name holds.
ScanMatches_anyvideo(flow, fs, timestamp) ==
    {f \in listdir(fs, output_folder) : endswith(f, <<".", "mp4">>)}

\* The directory entries the scan after the download accepts.
ScanMatches(flow, fs, timestamp) ==
    IF flow = "url"
    THEN {f \in listdir(fs, output_folder) : endswith(f, <<".", "mp4">>) /\ contains(f, timestamp)}
    ELSE {f \in listdir(fs, output_folder) : endswith(f, <<".", "mp4">>)}

\* The video id parsed from the name of the downloaded file.
VideoId(flow, file) ==
    LET parts == split(splitext(file)[1])
    IN  IF flow = "url"
        THEN IF Len(parts) >= 2 THEN parts[Len(parts) - 1] ELSE None
        ELSE parts[Len(parts)]

\* The name of the MP3 that ffmpeg extracts from the downloaded video.
AudioFilename(flow, video_filename, timestamp) ==
    IF flow = "url"
    THEN splitext(video_filename)[1] \o <<"_">> \o timestamp \o <<".", "mp3">>
    ELSE splitext(video_filename)[1] \o <<".", "mp3">>

\* What other requests can have left behind: nothing; the cached weights of
\* "base" and a video downloaded by the older process_url; the cached weights
\* and a video downloaded by process_url in second 0.
EarlierFiles ==
    LET warm == write(<<>>, ModelFile("base"), <<"weights">>)
    IN  { <<>>,
          write(warm, join(output_folder, <<"old", "_", "vid", ".", "mp4">>), <<"video of old">>),
          write(warm, join(output_folder, DownloadName("url", <<"https://v/2">>, strftime(0))),
                <<"video of">> \o <<"https://v/2">>) }

Init ==
    /\ now = 0
    /\ files \in EarlierFiles
    /\ run = [r \in Runs |-> IdleRun]
    /\ calls = [r \in Runs |-> <<>>]

\* ---------------------------------------------------------------- operations
Set(r, rec) == run' = [run EXCEPT ![r] = rec]

\* A request arrives: the handler is entered with its arguments (the script:
\* started, and the model name prompt answered).
Start(r, flow, source, model_name, source_language, task) ==
    /\ run[r].pc = "idle"
    /\ LET a == [source |-> source, model_name |-> model_name,
                 source_language |-> source_language, task |-> task]
           base == [IdleRun EXCEPT !.flow = flow, !.args = a]
           params == [base EXCEPT !.model_name = model_name,
                                  !.source_language = source_language, !.task = task]
       IN  Set(r, CASE flow = "audio" ->
                         [params EXCEPT !.pc = "classify", !.input_file = source]
                    [] flow = "audio_v1" ->
                         [params EXCEPT !.pc = "load", !.audio_file = source]
                    [] flow = "url" ->
                         [params EXCEPT !.pc = "download", !.timestamp = strftime(now)]
                    [] flow = "url_v1" ->
                         [params EXCEPT !.pc = "download"]
                    [] OTHER ->
                         [base EXCEPT !.pc = "load",
                                      !.model_name = IF model_name = "" THEN "base" ELSE model_name])
    /\ UNCHANGED <<now, files, calls>>

\* process_audio: the format test, and for a video the name of the WAV to
\* extract; without an uploaded file os.path.splitext(None) raises.
Classify(r) ==
    /\ run[r].pc = "classify"
    /\ IF run[r].input_file = None
       THEN Set(r, [run[r] EXCEPT !.pc = "raised", !.exc = "TypeError"])
       ELSE IF ~IsAudio(run[r].input_file)
            THEN Set(r, [run[r] EXCEPT !.pc = "extract",
                                       !.timestamp = strftime(now),
                                       !.extracted_audio = ExtractedAudio(strftime(now))])
            ELSE Set(r, [run[r] EXCEPT !.pc = "load", !.audio_file = run[r].input_file])
    /\ UNCHANGED <<now, files, calls>>

\* process_audio: ffmpeg extracts the audio of the video, or fails.
Extract(r) ==
    /\ run[r].pc = "extract"
    /\ \E returncode \in {0, 1} :
         /\ Made(r, Call("ffmpeg", run[r].input_file, run[r].extracted_audio, Empty, <<ToString(returncode)>>))
         /\ files' = IF returncode = 0
                     THEN write(files, run[r].extracted_audio, <<"audio of">> \o run[r].input_file)
                     ELSE files
         /\ IF CheckedRunRaises(returncode)
            THEN Set(r, [run[r] EXCEPT !.pc = "done",
                           !.result = << <<"Failed to extract audio: ">> \o ProcessError(<<"ffmpeg">>),
                                         Empty, <<"Audio extraction failed.">>, Empty >>])
            ELSE Set(r, [run[r] EXCEPT !.pc = "load", !.audio_file = run[r].extracted_audio])
    /\ UNCHANGED now

\* process_url: yt-dlp downloads the video into the output folder, or fails
\* (it is run on an empty URL too, and has nothing to download then).
Download(r) ==
    /\ run[r].pc = "download"
    /\ \E returncode \in IF run[r].args.source = Empty THEN {1} ELSE {0, 1} :
         /\ Made(r, Call("yt-dlp", run[r].args.source, Empty, Empty, <<ToString(returncode)>>))
         /\ files' = IF returncode = 0
                     THEN write(files,
                                join(output_folder,
                                     DownloadName(run[r].flow, run[r].args.source, run[r].timestamp)),
                                <<"video of">> \o run[r].args.source)
                     ELSE files
         /\ IF CheckedRunRaises(returncode)
            THEN Set(r, [run[r] EXCEPT !.pc = "done",
                           !.result = << None, None,
                                         <<"Error during video or audio processing: ">>
                                             \o ProcessError(<<"yt-dlp">>),
                                         None >>])
            ELSE Set(r, [run[r] EXCEPT !.pc = "scan"])
    /\ UNCHANGED now

\* process_url: the first matching entry of the directory listing (whose order
\* is arbitrary) is the downloaded video; its name gives the video id.
Scan(r) ==
    /\ run[r].pc = "scan"
    /\ LET matches == ScanMatches(run[r].flow, files, run[r].timestamp)
       IN  IF matches = {}
           THEN /\ Made(r, Call("listdir", output_folder, Empty, Empty, None))
                /\ Set(r, [run[r] EXCEPT !.pc = "done",
                             !.result = << None, None, <<"No video file found after download.">>, None >>])
           ELSE \E file \in matches :
                  /\ Made(r, Call("listdir", output_folder, Empty, Empty, file))
                  /\ Set(r, [run[r] EXCEPT !.pc = "convert",
                                           !.video_filename = join(output_folder, file),
                                           !.video_id = VideoId(run[r].flow, file)])
    /\ UNCHANGED <<now, files>>

\* process_url: ffmpeg extracts the audio of the downloaded video, or fails.
Convert(r) ==
    /\ run[r].pc = "convert"
    /\ LET audio_filename == AudioFilename(run[r].flow, run[r].video_filename, run[r].timestamp)
       IN  \E returncode \in {0, 1} :
             /\ Made(r, Call("ffmpeg", run[r].video_filename, audio_filename, Empty, <<ToString(returncode)>>))
             /\ files' = IF returncode = 0
                         THEN write(files, audio_filename, <<"audio of">> \o files[run[r].video_filename])
                         ELSE files
             /\ IF CheckedRunRaises(returncode)
                THEN Set(r, [run[r] EXCEPT !.pc = "done",
                               !.result = << None, None,
                                             <<"Error during video or audio processing: ">>
                                                 \o ProcessError(<<"ffmpeg">>),
                                             None >>])
                ELSE Set(r, [run[r] EXCEPT !.pc = "load", !.audio_file = audio_filename])
    /\ UNCHANGED now

\* whisper.load_model: the weights are loaded and kept as models/<name>.pt, or
\* loaded and kept under another name, or the load raises.
Load(r) ==
    /\ run[r].pc = "load"
    /\ LET model_file == ModelFile(run[r].model_name)
           before == IF model_file \in DOMAIN files THEN <<"cached">> ELSE <<"absent">>
       IN  \E outcome \in {"stored", "elsewhere", "error"} :
             /\ Made(r, Call("load_model", <<run[r].model_name>>, before, Empty, <<outcome>>))
             /\ files' = IF outcome = "stored" /\ model_file \notin DOMAIN files
                         THEN write(files, model_file, <<"weights">>)
                         ELSE files
             /\ IF outcome = "error"
                THEN Set(r, [run[r] EXCEPT !.pc = "raised", !.exc = "RuntimeError"])
                ELSE Set(r, [run[r] EXCEPT !.pc = "status"])
    /\ UNCHANGED now

\* After the load: the model status from the existence of the cache file, and
\* the task mapping (the script: the prompts for file, language and task).
Status(r) ==
    /\ run[r].pc = "status"
    /\ LET model_file == ModelFile(run[r].model_name)
           model_status == ModelStatus(model_file \in DOMAIN files, model_file)
       IN  IF run[r].flow = "cli"
           THEN Set(r, [run[r] EXCEPT
                          !.pc = "transcribe",
                          !.model_status = model_status,
                          !.audio_file = run[r].args.source,
                          !.source_language = IF run[r].args.source_language = Empty
                                              THEN <<"English">>
                                              ELSE run[r].args.source_language,
                          !.task = IF run[r].args.task = Empty
                                   THEN <<"transcribe">>
                                   ELSE run[r].args.task])
           ELSE Set(r, [run[r] EXCEPT
                          !.pc = "transcribe",
                          !.model_status = model_status,
                          !.task = MapTask(run[r].task)])
    /\ UNCHANGED <<now, files, calls>>

\* What the speech model hears in a file: what the file holds when it is read
\* (a file of the user, outside the folders of the program, holds its own recording).
Recording(fs, audio_file) ==
    IF audio_file \in DOMAIN fs THEN fs[audio_file] ELSE <<"audio of">> \o audio_file

\* The text the speech model returns: decided by the recording, the language and the task.
Transcription(recording, language, task) ==
    <<"text of">> \o recording \o <<"from">> \o language \o <<"as">> \o task

\* model.transcribe: the model returns a text, or raises (it has no text for
\* a missing file name).
Transcribe(r) ==
    /\ run[r].pc = "transcribe"
    /\ \/ LET text == Transcription(Recording(files, run[r].audio_file),
                                    run[r].source_language, run[r].task)
          IN  /\ run[r].audio_file \notin {None, Empty}
              /\ Made(r, Call("transcribe", run[r].audio_file, run[r].source_language,
                              run[r].task, text))
              /\ Set(r, [run[r] EXCEPT !.pc = "persist", !.output_text = text])
       \/ /\ Made(r, Call("transcribe", run[r].audio_file, run[r].source_language, run[r].task, None))
          /\ Set(r, [run[r] EXCEPT !.pc = "raised", !.exc = "ValueError"])
    /\ UNCHANGED <<now, files>>

\* The transcript path of a run whose text is ready, at second t (the script:
\* the default name, or the one the user enters).
OutputFilename(rec, t, custom) ==
    LET base_name == BaseName(rec.audio_file)
        output_type == OutputType(rec.task)
    IN  CASE rec.flow = "url" ->
               UrlOutputFilename(base_name, output_type, strftime(t), rec.video_id)
          [] rec.flow = "url_v1" ->
               UrlV1OutputFilename(base_name, output_type, strftime(t), rec.video_id)
          [] rec.flow = "cli" ->
               IF custom = Empty THEN CliOutputFilename(rec.audio_file, output_type) ELSE custom
          [] OTHER ->
               AudioOutputFilename(base_name, output_type, strftime(t))

\* The transcript is named and written, or the write raises.
Persist(r) ==
    /\ run[r].pc = "persist"
    /\ \E custom \in IF run[r].flow = "cli" THEN {Empty, <<"out", ".", "txt">>} ELSE {Empty} :
         LET output_filename == OutputFilename(run[r], now, custom)
         IN  \/ /\ Made(r, Call("write", output_filename, run[r].output_text, strftime(now), <<"written">>))
                /\ files' = write(files, output_filename, run[r].output_text)
                /\ Set(r, [run[r] EXCEPT !.pc = "return", !.output_filename = output_filename])
             \/ /\ Made(r, Call("write", output_filename, run[r].output_text, strftime(now), None))
                /\ Set(r, [run[r] EXCEPT !.pc = "raised", !.exc = "OSError",
                                         !.output_filename = output_filename])
                /\ UNCHANGED files
    /\ UNCHANGED now

\* The handler returns text, model status, file status and output path.
Return(r) ==
    /\ run[r].pc = "return"
    /\ Set(r, [run[r] EXCEPT
                 !.pc = "done",
                 !.result = IF run[r].flow = "cli"
                            THEN <<>>
                            ELSE << run[r].output_text, run[r].model_status,
                                    <<"Output saved to ">> \o run[r].output_filename,
                                    run[r].output_filename >>])
    /\ UNCHANGED <<now, files, calls>>

Step(r) ==
    \/ Classify(r)
    \/ Extract(r)
    \/ Download(r)
    \/ Scan(r)
    \/ Convert(r)
    \/ Load(r)
    \/ Status(r)
    \/ Transcribe(r)
    \/ Persist(r)
    \/ Return(r)

\* ---------------------------------------------------------------- specifications
\* Requests handled concurrently by the Gradio handlers of the processing script
\* (process_audio and process_url), on the shared folders.
Submit(r) ==
    /\ run[r].pc = "idle"
    /\ \E flow \in {"audio", "url"} :
       \E source \in IF flow = "audio"
                     THEN { <<"up1", "/", "sample", ".", "mp3">>,
                            <<"up2", "/", "sample", ".", "mp3">>,
                            <<"clip", ".", "mov">> }
                     ELSE Urls :
           Start(r, flow, source, "base", <<"German">>, <<"transcribe">>)

Next ==
    \/ Tick
    \/ \E r \in Runs : Submit(r)
    \/ \E r \in Runs : Step(r)

Spec == Init /\ [][Next]_vars

\* What a request can name as its source: a URL or the empty text of the URL
\* box; an uploaded file or None when nothing was uploaded; the script: a
\* path or an empty answer to the prompt.
Sources(flow) ==
    IF flow \in UrlFlows THEN Urls \cup {Empty}
    ELSE IF flow = "cli" THEN InputFiles \cup {Empty}
    ELSE InputFiles \cup {None}

\* One request, to any of the entry points, with any input.
SubmitAny(r) ==
    /\ run[r].pc = "idle"
    /\ \E flow \in Flows :
       \E source \in Sources(flow) :
       \E model_name \in IF flow = "cli" THEN ModelNames \cup {""} ELSE ModelNames :
       \E source_language \in Languages :
       \E task \in Tasks :
           Start(r, flow, source, model_name, source_language, task)

NextOne ==
    \/ Tick
    \/ SubmitAny(1)
    \/ Step(1)

SpecOne == Init /\ [][NextOne]_vars

\* ---------------------------------------------------------------- claims
\* The calls of run r to the collaborator op.
CallsOf(r, op) == {i \in DOMAIN calls[r] : calls[r][i].op = op}

\* Run r has invoked the transcoder, the speech model, or written a transcript.
WentOn(r) ==
    \/ CallsOf(r, "ffmpeg") # {}
    \/ CallsOf(r, "load_model") # {}
    \/ CallsOf(r, "transcribe") # {}
    \/ CallsOf(r, "write") # {}

\* The downloader of run r exited non-zero, or exited zero and the scan of the
\* output folder found no matching video.
ResolveFailed(r) ==
    \/ \E i \in CallsOf(r, "yt-dlp") : calls[r][i].out # <<"0">>
    \/ \E i \in CallsOf(r, "listdir") : calls[r][i].out = None

\* The outcome process_url returns when resolving fails: no text, no model
\* status, no output path, and the message of the failure.
ResolveFailure(result) ==
    /\ Len(result) = 4
    /\ result[1] = None /\ result[2] = None /\ result[4] = None
    /\ \/ result[3] = <<"No video file found after download.">>
       \/ result[3] = <<"Error during video or audio processing: ">> \o ProcessError(<<"yt-dlp">>)

\* C1: in the URL flow, when the downloader exits non-zero, or exits zero and
\* the directory scan finds no matching video, the run has ended with the
\* resolve failure outcome and has invoked neither ffmpeg nor load_model nor
\* transcribe, and has written no transcript.
C1_ResolveFailureEndsRun ==
    \A r \in Runs :
        (run[r].flow \in UrlFlows /\ ResolveFailed(r)) =>
            /\ run[r].pc = "done"
            /\ ResolveFailure(run[r].result)
            /\ ~WentOn(r)

\* C1 witness: a download that exited zero, a scan that found no video (while
\* the folder is not empty), and the run ended.
C1_Witness ==
    \E r \in Runs :
        /\ run[r].flow = "url"
        /\ \E i \in CallsOf(r, "yt-dlp") : calls[r][i].out = <<"0">>
        /\ \E i \in CallsOf(r, "listdir") : calls[r][i].out = None
        /\ listdir(files, output_folder) # {}
        /\ run[r].pc = "done"

\* The outcome process_audio returns when the extraction fails.
ExtractFailure(result) ==
    result = << <<"Failed to extract audio: ">> \o ProcessError(<<"ffmpeg">>),
                Empty, <<"Audio extraction failed.">>, Empty >>

\* C2: in the local-file flow, when ffmpeg exits non-zero during the audio
\* extraction, the run has ended with the extraction failure outcome, the
\* model is neither loaded nor invoked and no transcript is written.
C2_ExtractFailureEndsRun ==
    \A r \in Runs :
        (run[r].flow = "audio" /\ \E i \in CallsOf(r, "ffmpeg") : calls[r][i].out # <<"0">>) =>
            /\ run[r].pc = "done"
            /\ ExtractFailure(run[r].result)
            /\ CallsOf(r, "load_model") = {}
            /\ CallsOf(r, "transcribe") = {}
            /\ CallsOf(r, "write") = {}
            /\ Cardinality(CallsOf(r, "ffmpeg")) = 1

\* C2 witness: a local video whose extraction failed, and the run ended.
C2_Witness ==
    \E r \in Runs :
        /\ run[r].flow = "audio"
        /\ ~IsAudio(run[r].args.source)
        /\ \E i \in CallsOf(r, "ffmpeg") : calls[r][i].out = <<"1">>
        /\ run[r].pc = "done"

\* Run r has returned a success: a text and the path of its transcript.
Succeeded(r) ==
    /\ run[r].pc = "done"
    /\ Len(run[r].result) = 4
    /\ run[r].result[4] # None /\ run[r].result[4] # Empty

\* C3: every run that has returned successfully, in any interleaving of the
\* runs on the shared output folder, has written exactly one text file, and
\* the file at the output path it returned holds the text it returned.
C3_ArtifactEqualsReturnedText ==
    \A r \in Runs :
        Succeeded(r) =>
            /\ Cardinality(CallsOf(r, "write")) = 1
            /\ run[r].result[4] \in DOMAIN files
            /\ files[run[r].result[4]] = run[r].result[1]

\* The part of C3 the code keeps: one text file per successful run.
C3_OneWritePerSuccess ==
    \A r \in Runs : Succeeded(r) => Cardinality(CallsOf(r, "write")) = 1

\* The extension tokens that are an audio extension in some letter case.
AudioExtensionTokens ==
    { "wav", "mp3", "flac", "ogg", "m4a", "aac", "Wav", "MP3", "FLAC" }

\* The path ends in "." and an audio extension, and in its last component
\* something other than dots precedes that ".".
HasAudioExtension(path) ==
    /\ Len(path) >= 3
    /\ path[Len(path)] \in AudioExtensionTokens
    /\ path[Len(path) - 1] = "."
    /\ \E j \in 1..(Len(path) - 2) :
         /\ path[j] \notin {".", "/"}
         /\ \A k \in j..Len(path) : path[k] # "/"

\* C4: process_audio treats its input as audio exactly when its extension is,
\* in any letter case, one of wav, mp3, flac, ogg, m4a, aac: then ffmpeg is
\* never invoked and the model receives the input path; for any other input
\* ffmpeg is invoked exactly once before the model, and the model receives
\* the path of the extracted audio.
C4_AudioIffKnownExtension ==
    \A r \in Runs :
        (/\ run[r].flow = "audio"
         /\ run[r].args.source # None
         /\ run[r].pc \notin {"idle", "classify"}) =>
            IF HasAudioExtension(run[r].args.source)
            THEN /\ CallsOf(r, "ffmpeg") = {}
                 /\ run[r].pc # "extract"
                 /\ \A i \in CallsOf(r, "transcribe") : calls[r][i].a = run[r].args.source
            ELSE /\ Cardinality(CallsOf(r, "ffmpeg")) = IF run[r].pc = "extract" THEN 0 ELSE 1
                 /\ \A i \in CallsOf(r, "transcribe") :
                      /\ calls[r][i].a # run[r].args.source
                      /\ \E j \in CallsOf(r, "ffmpeg") :
                           /\ j < i
                           /\ calls[r][j].a = run[r].args.source
                           /\ calls[r][j].b = calls[r][i].a
                           /\ calls[r][j].out = <<"0">>

\* C4 witness: an upper-case audio extension went to the model without ffmpeg.
C4_Witness ==
    \E r \in Runs :
        /\ run[r].flow = "audio"
        /\ run[r].args.source = <<"song", ".", "MP3">>
        /\ CallsOf(r, "ffmpeg") = {}
        /\ \E i \in CallsOf(r, "transcribe") : calls[r][i].a = <<"song", ".", "MP3">>

\* C4 second case reached: an input without extension went through ffmpeg
\* once and the model received the extracted audio.
C4_WitnessVideo ==
    \E r \in Runs :
        /\ run[r].flow = "audio"
        /\ run[r].args.source = <<".", "mp3">>
        /\ Cardinality(CallsOf(r, "ffmpeg")) = 1
        /\ \E i \in CallsOf(r, "transcribe") : calls[r][i].a = run[r].extracted_audio

\* The handlers (the command-line script is none).
HandlerFlows == {"audio", "url", "audio_v1", "url_v1"}

\* C5: the task the model is invoked with is "translate" when the handler was
\* given "transcribe & translate", and otherwise the task the handler was
\* given, whatever it is; in the local-file flow and in the URL flow.
C5_TaskMapping ==
    \A r \in Runs :
        run[r].flow \in HandlerFlows =>
            \A i \in CallsOf(r, "transcribe") :
                calls[r][i].c = IF run[r].args.task = <<"transcribe & translate">>
                                THEN <<"translate">>
                                ELSE run[r].args.task

\* C5 witness: a URL run given "transcribe & translate" has invoked the model.
C5_Witness ==
    \E r \in Runs :
        /\ run[r].flow = "url"
        /\ run[r].args.task = <<"transcribe & translate">>
        /\ \E i \in CallsOf(r, "transcribe") : calls[r][i].c = <<"translate">>

\* The origin id of a run: the video id of a URL run, none in a local run.
OriginId(r) == IF run[r].flow \in UrlFlows THEN run[r].video_id ELSE None

\* C6: the transcript is written to {baseName}_{kind}_{timestamp}, followed
\* by _{originId} exactly when the run has an origin id, where baseName is the
\* name of the file given to the model without its extension, kind is
\* "translated" when the model task is "translate" and "transcribed"
\* otherwise, and timestamp is the second of the write.
C6_TranscriptName ==
    \A r \in Runs :
        run[r].flow \in HandlerFlows =>
            \A i \in CallsOf(r, "write") :
            \E j \in CallsOf(r, "transcribe") :
                LET baseName == BaseName(calls[r][j].a)
                    kind == IF calls[r][j].c = <<"translate">> THEN "translated" ELSE "transcribed"
                    stem == baseName \o <<"_", kind, "_">> \o calls[r][i].c
                    present == OriginId(r) \notin {None, Empty}
                IN  /\ j < i
                    /\ calls[r][i].a = <<"transcribe", "/">>
                                          \o (IF present THEN stem \o <<"_">> \o OriginId(r) ELSE stem)
                                          \o <<".", "txt">>

\* C6 witness: a URL run with an origin id has written its transcript.
C6_Witness ==
    \E r \in Runs :
        /\ run[r].flow = "url"
        /\ OriginId(r) \notin {None, Empty}
        /\ \E i \in CallsOf(r, "write") : calls[r][i].out = <<"written">>

\* C6 second case reached: a local run, without origin id, has written its transcript.
C6_WitnessLocal ==
    \E r \in Runs :
        /\ run[r].flow = "audio"
        /\ OriginId(r) = None
        /\ \E i \in CallsOf(r, "write") : calls[r][i].out = <<"written">>

\* Run r is a local video processed with "transcribe & translate" whose
\* transcript has been written.
VideoTranslated(r) ==
    /\ run[r].flow = "audio"
    /\ ~HasAudioExtension(run[r].args.source)
    /\ run[r].args.task = <<"transcribe & translate">>
    /\ \E i \in CallsOf(r, "write") : calls[r][i].out = <<"written">>

\* C7 as claimed: for a local video with base name B processed with
\* "transcribe & translate", ffmpeg is invoked, the model is invoked with
\* "translate", and the transcript is named B_translated_<timestamp>.txt.
C7_NamedAfterVideo ==
    \A r \in Runs :
        VideoTranslated(r) =>
            /\ CallsOf(r, "ffmpeg") # {}
            /\ \A i \in CallsOf(r, "transcribe") : calls[r][i].c = <<"translate">>
            /\ \A i \in CallsOf(r, "write") :
                 calls[r][i].a = <<"transcribe", "/">> \o BaseName(run[r].args.source)
                                    \o <<"_", "translated", "_">> \o calls[r][i].c \o <<".", "txt">>

\* C7 as amended: for a local video processed with "transcribe & translate",
\* ffmpeg is invoked, the model is invoked with "translate", and the
\* transcript is named extracted_<t1>_translated_<t2>.txt, where t1 is the
\* timestamp taken before the extraction and t2 the one of the write: the
\* name is derived from the extracted audio and does not contain B.
C7_NamedAfterExtractedAudio ==
    \A r \in Runs :
        VideoTranslated(r) =>
            /\ Cardinality(CallsOf(r, "ffmpeg")) = 1
            /\ \A i \in CallsOf(r, "transcribe") : calls[r][i].c = <<"translate">>
            /\ \A i \in CallsOf(r, "write") :
                 \E t1 \in 0..MaxTime :
                    /\ strftime(t1) = run[r].timestamp
                    /\ calls[r][i].a = <<"transcribe", "/", "extracted", "_", "20241229", "_", ToString(t1),
                                         "_", "translated", "_">> \o calls[r][i].c \o <<".", "txt">>

\* C7 witness: clip.mov, processed with "transcribe & translate", has its transcript.
C7_Witness ==
    \E r \in Runs :
        /\ VideoTranslated(r)
        /\ run[r].args.source = <<"clip", ".", "mov">>
        /\ run[r].pc = "done"

\* C8: a run started with an empty language hint passes English to the speech
\* model, in process_audio, in process_url and in the command-line script.
C8_EmptyLanguageIsEnglish ==
    \A r \in Runs :
        (run[r].flow \in {"audio", "url", "cli"} /\ run[r].args.source_language = Empty) =>
            \A i \in CallsOf(r, "transcribe") : calls[r][i].b = <<"English">>

\* The model status of a run that reports a download / a load from the cache.
ReportsDownloaded(r) == run[r].model_status = <<"Model was downloaded to: ">> \o ModelFile(run[r].model_name)
ReportsCached(r) == run[r].model_status = <<"Model successfully loaded from: ">> \o ModelFile(run[r].model_name)

\* C9: in process_audio and process_url the reported provenance is that of
\* the cache file before the load of the same run: a run whose load found models/<name>.pt absent and created
\* it reports "downloaded", a run whose load found it present reports
\* "loaded from cache".
C9_ProvenanceBeforeLoad ==
    \A r \in Runs :
        (run[r].flow \in {"audio", "url"} /\ run[r].model_status # None) =>
            \A i \in CallsOf(r, "load_model") :
                /\ (calls[r][i].b = <<"absent">> /\ calls[r][i].out = <<"stored">>) => ReportsDownloaded(r)
                /\ calls[r][i].b = <<"cached">> => ReportsCached(r)

\* The stage in which run r failed, "none" if it has not.
FailedStage(r) ==
    IF \E i \in DOMAIN calls[r] :
          calls[r][i].op \in {"yt-dlp", "listdir"} /\ calls[r][i].out \in {<<"1">>, None}
    THEN "resolve"
    ELSE IF \E i \in CallsOf(r, "ffmpeg") : calls[r][i].out = <<"1">> THEN "extract"
    ELSE IF \E i \in DOMAIN calls[r] :
               \/ calls[r][i].op = "load_model" /\ calls[r][i].out = <<"error">>
               \/ calls[r][i].op = "transcribe" /\ calls[r][i].out = None
         THEN "infer"
    ELSE IF \E i \in CallsOf(r, "write") : calls[r][i].out = None THEN "persist"
    ELSE "none"

\* C10: every failure of a run of process_audio or process_url, in whatever stage, ends the run with a
\* returned failure value that carries a message; no failure leaves the handler
\* as an exception; and failures of different stages return different values.
C10_FailuresAreReturned ==
    /\ \A r \in Runs :
         (run[r].flow \in {"audio", "url"} /\ FailedStage(r) # "none") =>
            /\ run[r].pc = "done"
            /\ Len(run[r].result) = 4
            /\ run[r].result[3] \notin {None, Empty}
    /\ \A r1, r2 \in Runs :
         (/\ run[r1].pc = "done" /\ run[r2].pc = "done"
          /\ FailedStage(r1) # "none" /\ FailedStage(r2) # "none"
          /\ FailedStage(r1) # FailedStage(r2)) => run[r1].result # run[r2].result

\* C11: a request of process_audio or process_url whose source is empty (no
\* uploaded file, an empty URL) is rejected at the start: it runs neither the
\* downloader nor the transcoder, makes no model call and writes no file.
C11_EmptySourceRejected ==
    \A r \in Runs :
        (run[r].flow \in {"audio", "url"} /\ run[r].args.source \in {None, Empty}) =>
            calls[r] = <<>>

\* The part of C11 the code keeps: without an uploaded file process_audio
\* makes no external call (it raises), and on an empty URL process_url makes
\* no call but that of the downloader.
C11_EmptySourceCalls ==
    \A r \in Runs :
        (run[r].flow \in {"audio", "url"} /\ run[r].args.source \in {None, Empty}) =>
            \A i \in DOMAIN calls[r] : run[r].flow = "url" /\ calls[r][i].op = "yt-dlp"

\* C12: in process_url, when the scan has taken a file named by the
\* downloader's template <title>_<id>_<timestamp>.mp4, the video id parsed
\* from its name is the site's <id>, and it is the id appended to the name
\* of the transcript.
C12_ParsedIdIsSiteId ==
    \A r \in Runs :
        run[r].flow = "url" =>
            \A i \in CallsOf(r, "listdir") :
            \A url \in Urls :
            \A t \in 0..MaxTime :
                calls[r][i].out = DownloadName("url", url, strftime(t)) =>
                    /\ run[r].video_id = Media(url).id
                    /\ \A j \in CallsOf(r, "write") :
                         endswith(calls[r][j].a, <<"_">> \o Media(url).id \o <<".", "txt">>)

\* What the code does instead: the parsed id is the date of the timestamp.
C12_ParsedIdIsDate ==
    \A r \in Runs :
        (run[r].flow = "url" /\ \E i \in CallsOf(r, "listdir") : calls[r][i].out # None) =>
            run[r].video_id = <<"20241229">>

\* The text the model returns for the video behind a URL.
TextOfVideo(url, language, task) ==
    Transcription(<<"audio of", "video of">> \o url, language, task)

\* Run r has taken, in its scan, the video that the downloader of run o wrote
\* for another URL in the same second.
TookVideoOf(r, o) ==
    /\ r # o
    /\ run[r].flow = "url" /\ run[o].flow = "url"
    /\ run[r].args.source # run[o].args.source
    /\ run[r].timestamp = run[o].timestamp
    /\ \E i \in CallsOf(o, "yt-dlp") : calls[o][i].out = <<"0">>
    /\ \E i \in CallsOf(r, "yt-dlp") : calls[r][i].out = <<"0">>
    /\ \E i \in CallsOf(r, "listdir") :
         calls[r][i].out = DownloadName("url", run[o].args.source, run[o].timestamp)

\* C13: the scan of process_url, made after the run's own downloader has
\* exited successfully, takes a .mp4 of the shared folder whose name holds the
\* run's timestamp, whichever request's downloader wrote it, and the run
\* extracts and transcribes that video; so a run that took the video of a
\* concurrent run of the same second transcribes the other request's media.
C13_ScanTakesAnyMatchingVideo ==
    \A r \in Runs :
        run[r].flow = "url" =>
            \A i \in CallsOf(r, "listdir") :
                calls[r][i].out # None =>
                    /\ \E d \in CallsOf(r, "yt-dlp") : d < i /\ calls[r][d].out = <<"0">>
                    /\ endswith(calls[r][i].out, <<".", "mp4">>)
                    /\ contains(calls[r][i].out, run[r].timestamp)
                    /\ \E url \in Urls :
                         /\ calls[r][i].out = DownloadName("url", url, run[r].timestamp)
                         /\ \A j \in CallsOf(r, "ffmpeg") :
                              calls[r][j].a = join(output_folder, calls[r][i].out)
                         /\ \A j \in CallsOf(r, "transcribe") :
                              calls[r][j].out \in {None, TextOfVideo(url, calls[r][j].b, calls[r][j].c)}

\* C13 witness: of two runs of the same second, the one asked for
\* https://v/2, whose own video was downloaded, took the video the other
\* run's downloader wrote for https://v/1, and has returned its text.
C13_Witness ==
    \E r, o \in Runs :
        /\ TookVideoOf(r, o)
        /\ run[r].args.source = <<"https://v/2">>
        /\ run[o].args.source = <<"https://v/1">>
        /\ run[r].pc = "done"
        /\ Len(run[r].result) = 4
        /\ run[r].result[1] = TextOfVideo(<<"https://v/1">>, run[r].source_language, run[r].task)
====
